---- MODULE Spec2Model ----
(***************************************************************************)
(* Model of the label pipeline of diegolpedro/relabel:                     *)
(*   generate.py  predict_pdf, generar_etiqueta                            *)
(*   flyer.py     qr_to_pdf, main                                          *)
(*   print.py     generate_sheet, main                                     *)
(*   train.py     DATA_DIRS, load_data, main                               *)
(*   cfg.py       the directories                                          *)
(* The state is the part of the file system the program reads and writes   *)
(* (base directory, out directory, tmp directory, model directory) and the *)
(* position and locals of one run of generar_etiqueta.  File names are     *)
(* sequences of characters so that the parsing of <medium>-<order>.pdf is  *)
(* computed as the code computes it.                                       *)
(***************************************************************************)
EXTENDS Integers, Sequences, FiniteSets, TLC

VARIABLES
    base,        \* BASE_DIR: file name -> "absent" | "text" | "blank" (label documents)
    out,         \* OUT_PATH: file name -> NoFile | file content
    stray,       \* the path "out" resolved in a working directory other than BASE_DIR
    ejemplo,     \* BASE_DIR/ejemplo_salida.pdf, the output of print.py's main
    tmpPng,      \* tmp/interm.png exists
    tmpPdf,      \* tmp/interm.pdf: NoFile | a corrupt file | the flyer with its QR payload
    artifact,    \* model/*.pkl: NoFile | [classes, trained]
    pc,          \* position of generar_etiqueta
    cwd,         \* working directory of the current run: "base" | "other"
    file,        \* generar_etiqueta: file
    tipo_envio,  \* generar_etiqueta: tipo_envio
    made,        \* temporary files the current run has written
    res,         \* per step of the current run: "-" (not run) or what it returned/raised
    out0,        \* out as it was when the current run started
    base0,       \* base as it was when the current run started
    runs         \* number of program runs started so far

vars == <<base, out, stray, ejemplo, tmpPng, tmpPdf, artifact, pc, cwd, file,
          tipo_envio, made, res, out0, base0, runs>>

\* Number of program runs (generate.py, flyer.py, print.py, train.py) explored.
MaxRuns == 2

NoFile == [kind |-> "absent"]

-----------------------------------------------------------------------------
(* File names                                                              *)

PDF == <<".", "p", "d", "f">>

\* The files a user may drop into BASE_DIR: two that follow the naming
\* convention (one of them with a second hyphen) and one that does not.
InputNames ==
    { <<"m", "-", "1">> \o PDF,
      <<"c", "-", "2", "-", "3">> \o PDF,
      <<"n", "1">> \o PDF }

\* str.endswith
EndsWith(s, suf) ==
    /\ Len(s) >= Len(suf)
    /\ SubSeq(s, Len(s) - Len(suf) + 1, Len(s)) = suf

\* c in s
Contains(s, c) == \E i \in 1..Len(s) : s[i] = c

FirstIndex(s, c) == CHOOSE i \in 1..Len(s) : s[i] = c /\ \A j \in 1..(i-1) : s[j] # c
LastIndex(s, c) == CHOOSE i \in 1..Len(s) : s[i] = c /\ \A j \in (i+1)..Len(s) : s[j] # c

\* s.rsplit(c, 1)[0]
RSplitHead(s, c) == IF Contains(s, c) THEN SubSeq(s, 1, LastIndex(s, c) - 1) ELSE s

\* s.split(c, 1), for s that contains c
Split1(s, c) ==
    <<SubSeq(s, 1, FirstIndex(s, c) - 1), SubSeq(s, FirstIndex(s, c) + 1, Len(s))>>

\* generar_etiqueta: the filter of the directory listing
Matches(f) == EndsWith(f, PDF) /\ Contains(f, "-")

\* generar_etiqueta: medio_venta, num_orden = file.rsplit(".", 1)[0].split("-", 1)
medio_venta(f) == Split1(RSplitHead(f, "."), "-")[1]
num_orden(f) == Split1(RSplitHead(f, "."), "-")[2]

\* generar_etiqueta: pdf_out_path = OUT_PATH / f"{medio_venta}{num_orden}.pdf"
pdf_out_path(f) == medio_venta(f) \o num_orden(f) \o PDF

OutNames == InputNames \cup { pdf_out_path(f) : f \in { g \in InputNames : Matches(g) } }

-----------------------------------------------------------------------------
(* print.py: the geometry of generate_sheet                                *)

\* Rectangles are <<x0, y0, x1, y1>>, as fitz.Rect.
rect1 == <<6, 10, 297, 410>>
a5_rect1 == <<0, 0, 297, 420>>

envio_rects ==
    ( "MercadoLibre" :> [rect2 |-> <<30, 140, 297, 600>>,
                         a5_rect2 |-> <<297, 10, 595, 440>>] ) @@
    ( "CorreoArg"    :> [rect2 |-> <<50, 57, 305, 490>>,
                         a5_rect2 |-> <<297, 10, 595, 440>>] )

\* doc_final.new_page(width=595, height=420)
PageWidth == 595
PageHeight == 420

x_middle == 297
y_start == 1
y_end == 419
y_step == 3

\* The values of Python's range(a, b, step) for step > 0: a, a + step, ...
\* as long as they stay below b
Range(a, b, step) == { y \in a..(b - 1) : (y - a) % step = 0 }

\* The loop with its end bound included: range(y_start, y_end + 3, 3)
CutGuide_inclusive ==
    { <<x_middle, y, x_middle, y + 2>> : y \in Range(y_start, y_end + y_step, y_step) }

\* for y in range(y_start, y_end, 3): draw_line((x_middle, y), (x_middle, y + 2))
CutGuide ==
    { <<x_middle, y, x_middle, y + 2>> : y \in Range(y_start, y_end, y_step) }

\* The document generate_sheet saves: one new page with both images placed
\* and the cut guide drawn.  (The optional scissor icon is one more image on
\* the same page; it changes neither the page nor the files and is left out.)
ComposedSheet(tipo, promo, label) ==
    [kind |-> "sheet",
     pages |-> 1,
     width |-> PageWidth,
     height |-> PageHeight,
     promo |-> [payload |-> promo, src |-> rect1, dest |-> a5_rect1],
     label |-> [name |-> label, src |-> envio_rects[tipo].rect2,
                dest |-> envio_rects[tipo].a5_rect2],
     segments |-> Cardinality(CutGuide)]

Corrupt == [kind |-> "corrupt"]

\* generate_sheet with the category validated inside the try block: an
\* unknown category is raised as any other failure and the finally runs.
generate_sheet_validate_in_try(tipo, label, labelExists, old, fault) ==
    IF tmpPdf = NoFile THEN
        {[ret |-> "raise", pdf |-> tmpPdf, outfile |-> old]}
    ELSE IF ~labelExists THEN
        {[ret |-> "raise", pdf |-> tmpPdf, outfile |-> old]}
    ELSE IF tipo \notin DOMAIN envio_rects THEN
        {[ret |-> "raise", pdf |-> NoFile, outfile |-> old]}
    ELSE IF tmpPdf = Corrupt \/ fault = "extract" THEN
        {[ret |-> "raise", pdf |-> NoFile, outfile |-> old]}
    ELSE IF fault = "save" THEN
        {[ret |-> "raise", pdf |-> NoFile, outfile |-> f] : f \in {old, Corrupt}}
    ELSE
        {[ret |-> "None", pdf |-> NoFile,
          outfile |-> ComposedSheet(tipo, tmpPdf.payload, label)]}

\* generate_sheet(tipo, label_envio, output_file): the set of its possible
\* outcomes [ret, pdf, outfile]: what it returns ("None", "False") or that
\* it raises, tmp/interm.pdf afterwards, and the output path afterwards.
\*   labelExists  os.path.exists(label_envio)
\*   old          the output path before the call
\*   fault        an extraction or save failure inside the try block
generate_sheet(tipo, label, labelExists, old, fault) ==
    IF tmpPdf = NoFile THEN
        {[ret |-> "raise", pdf |-> tmpPdf, outfile |-> old]}
    ELSE IF ~labelExists THEN
        {[ret |-> "raise", pdf |-> tmpPdf, outfile |-> old]}
    ELSE IF tipo \notin DOMAIN envio_rects THEN
        {[ret |-> "False", pdf |-> tmpPdf, outfile |-> old]}
    ELSE IF tmpPdf = Corrupt \/ fault = "extract" THEN
        {[ret |-> "raise", pdf |-> NoFile, outfile |-> old]}
    ELSE IF fault = "save" THEN
        {[ret |-> "raise", pdf |-> NoFile, outfile |-> f] : f \in {old, Corrupt}}
    ELSE
        {[ret |-> "None", pdf |-> NoFile,
          outfile |-> ComposedSheet(tipo, tmpPdf.payload, label)]}

SheetFaults == {"none", "extract", "save"}

-----------------------------------------------------------------------------
(* flyer.py                                                                *)

\* qr_url = f"{url}?origen={medio_venta}&id={nro_orden}"
qr_url(medio, orden) == [origen |-> medio, id |-> orden]

\* qr_to_pdf(medio_venta, nro_orden, url): the set of its possible outcomes
\* [ret, png, pdf, made]: what it returns ("path", "None") or that it
\* raises, the two temporary files afterwards, and which of them it wrote.
\*   template  DATA_PATH/flyer.pdf exists
\*   fault     "qrsave": qr.save raises; "stamp": opening the template or
\*             inserting the image raises; "save": doc.save raises
qr_to_pdf(medio, orden, template, fault) ==
    IF fault = "qrsave" THEN
        {[ret |-> "raise", png |-> tmpPng, pdf |-> tmpPdf, made |-> {}]}
    ELSE IF ~template THEN
        {[ret |-> "None", png |-> TRUE, pdf |-> tmpPdf, made |-> {"png"}]}
    ELSE IF fault = "stamp" THEN
        {[ret |-> "None", png |-> FALSE, pdf |-> tmpPdf, made |-> {"png"}]}
    ELSE IF fault = "save" THEN
        {[ret |-> "None", png |-> FALSE, pdf |-> tmpPdf, made |-> {"png"}],
         [ret |-> "None", png |-> FALSE, pdf |-> Corrupt, made |-> {"png", "pdf"}]}
    ELSE
        {[ret |-> "path", png |-> FALSE,
          pdf |-> [kind |-> "flyer", payload |-> qr_url(medio, orden)],
          made |-> {"png", "pdf"}]}

FlyerFaults == {"none", "qrsave", "stamp", "save"}

-----------------------------------------------------------------------------
(* train.py and generate.py: the classifier                                *)

\* DATA_DIRS with a folder for a category the geometry table lacks
DATA_DIRS_extended == {"MercadoLibre", "CorreoArg", "Otro"}

\* The keys of DATA_DIRS
DATA_DIRS == {"MercadoLibre", "CorreoArg"}

\* Every label an artifact in the model directory may carry: the labels of
\* this train.py and one of another version of the training data.
Categories == DATA_DIRS \cup {"Otro"}

\* load_data: the labels of the folders that hold a PDF with text.
\*   withText  the folders (keys of DATA_DIRS) that hold such a PDF
load_data(withText) == { label \in DATA_DIRS : label \in withText }

\* predict_pdf without the blank-text check: the vectorizer transforms the
\* empty text and the model answers with one of its classes.
predict_pdf_no_text_check(f, fault) ==
    IF artifact = NoFile THEN {[ret |-> "raise", cat |-> "-"]}
    ELSE IF fault THEN {[ret |-> "raise", cat |-> "-"]}
    ELSE {[ret |-> "ok", cat |-> c] : c \in artifact.classes}

\* predict_pdf(pdf_path): the set of its possible outcomes [ret, cat].
\*   fault  a failure in opening the PDF, transform, predict or decode
predict_pdf(f, fault) ==
    IF artifact = NoFile THEN {[ret |-> "raise", cat |-> "-"]}
    ELSE IF fault THEN {[ret |-> "raise", cat |-> "-"]}
    ELSE IF base[f] # "text" THEN {[ret |-> "raise", cat |-> "-"]}
    ELSE {[ret |-> "ok", cat |-> c] : c \in artifact.classes}

Artifact(classes, trained) == [kind |-> "artifact", classes |-> classes, trained |-> trained]

-----------------------------------------------------------------------------
(* The state after checkout: empty directories, no run started             *)

Steps == {"discover", "classify", "flyer", "compose", "lpstat", "lp", "archive"}

NoRun == [s \in Steps |-> "-"]

Ended == {"idle", "done", "error"}

Init ==
    /\ base = [f \in InputNames |-> "absent"]
    /\ out = [f \in OutNames |-> NoFile]
    /\ stray = NoFile
    /\ ejemplo = NoFile
    /\ tmpPng = FALSE
    /\ tmpPdf = NoFile
    /\ artifact = NoFile
    /\ pc = "idle"
    /\ cwd = "base"
    /\ file = <<>>
    /\ tipo_envio = "-"
    /\ made = {}
    /\ res = NoRun
    /\ out0 = out
    /\ base0 = base
    /\ runs = 0

\* No run of generar_etiqueta is in progress or on record.
Forget ==
    /\ pc' = "idle"
    /\ cwd' = "base"
    /\ file' = <<>>
    /\ tipo_envio' = "-"
    /\ made' = {}
    /\ res' = NoRun
    /\ out0' = out'
    /\ base0' = base'

-----------------------------------------------------------------------------
(* The environment, between runs                                           *)

\* The user puts a label document into BASE_DIR.
PlaceInput ==
    /\ pc \in Ended
    /\ \E f \in InputNames, kind \in {"text", "blank"} :
          /\ base[f] = "absent"
          /\ Matches(f) \/ kind = "text"
          /\ base' = [base EXCEPT ![f] = kind]
    /\ UNCHANGED <<out, stray, ejemplo, tmpPng, tmpPdf, artifact, runs>>
    /\ Forget

\* An artifact that this train.py did not produce (its label encoder knows
\* every category) is put into the model directory, or the artifact is
\* removed from it.
InstallArtifact ==
    /\ pc \in Ended
    /\ \E a \in {NoFile, Artifact(Categories, FALSE)} :
          /\ a # artifact
          /\ artifact' = a
    /\ UNCHANGED <<base, out, stray, ejemplo, tmpPng, tmpPdf, runs>>
    /\ Forget

-----------------------------------------------------------------------------
(* The other programs of the repository, each run as a script              *)

\* train.py main: the label encoder is fitted on the labels load_data
\* returns and saved last; fitting on no text at all raises and nothing is
\* saved.  Every non-empty set of labels is taken to train, which allows
\* more artifacts than the fit of the classifier accepts.
TrainMain ==
    /\ pc \in Ended
    /\ runs < MaxRuns
    /\ runs' = runs + 1
    /\ \E withText \in SUBSET Categories :
          LET labels == load_data(withText)
          IN  artifact' = IF labels = {} THEN artifact ELSE Artifact(labels, TRUE)
    /\ UNCHANGED <<base, out, stray, ejemplo, tmpPng, tmpPdf>>
    /\ Forget

\* flyer.py main: qr_to_pdf("WEB", "111102222", url)
FlyerMain ==
    /\ pc \in Ended
    /\ runs < MaxRuns
    /\ runs' = runs + 1
    /\ \E template \in BOOLEAN, fault \in FlyerFaults :
          \E o \in qr_to_pdf(<<"WEB">>, <<"111102222">>, template, fault) :
             /\ tmpPng' = o.png
             /\ tmpPdf' = o.pdf
    /\ UNCHANGED <<base, out, stray, ejemplo, artifact>>
    /\ Forget

\* print.py main: generate_sheet("MercadoLibre", DATA_PATH / "ejemplo_ml.pdf",
\*                               BASE_DIR / "ejemplo_salida.pdf")
PrintMain ==
    /\ pc \in Ended
    /\ runs < MaxRuns
    /\ runs' = runs + 1
    /\ \E labelExists \in BOOLEAN, fault \in SheetFaults :
          \E o \in generate_sheet("MercadoLibre", <<"ejemplo_ml">> \o PDF,
                                  labelExists, ejemplo, fault) :
             /\ tmpPdf' = o.pdf
             /\ ejemplo' = o.outfile
    /\ UNCHANGED <<base, out, stray, tmpPng, artifact>>
    /\ Forget

-----------------------------------------------------------------------------
(* generate.py: generar_etiqueta, one action per step of the pipeline      *)

\* Discover: the directory listing, its filter and the choice of pdf_files[0]
Discover ==
    /\ pc \in Ended
    /\ runs < MaxRuns
    /\ runs' = runs + 1
    /\ \E w \in {"base", "other"} : cwd' = w
    /\ tipo_envio' = "-"
    /\ made' = {}
    /\ out0' = out
    /\ base0' = base
    /\ LET pdf_files == { f \in InputNames : base[f] # "absent" /\ Matches(f) }
       IN  IF pdf_files = {}
           THEN /\ pc' = "error"
                /\ file' = <<>>
                /\ res' = [NoRun EXCEPT !["discover"] = "raise"]
           ELSE /\ pc' = "classify"
                /\ \E f \in pdf_files : file' = f
                /\ res' = [NoRun EXCEPT !["discover"] = "ok"]
    /\ UNCHANGED <<base, out, stray, ejemplo, tmpPng, tmpPdf, artifact>>

\* Classify: tipo_envio = predict_pdf(pdf_envio_path)
Classify ==
    /\ pc = "classify"
    /\ \E fault \in BOOLEAN :
          \E o \in predict_pdf(file, fault) :
             /\ res' = [res EXCEPT !["classify"] = o.ret]
             /\ tipo_envio' = o.cat
             /\ pc' = IF o.ret = "raise" THEN "error" ELSE "flyer"
    /\ UNCHANGED <<base, out, stray, ejemplo, tmpPng, tmpPdf, artifact, cwd, file,
                   made, out0, base0, runs>>

\* GenerateFlyer: qr_to_pdf(medio_venta, num_orden, URL_WEB), result unused
GenerateFlyer ==
    /\ pc = "flyer"
    /\ \E template \in BOOLEAN, fault \in FlyerFaults :
          \E o \in qr_to_pdf(medio_venta(file), num_orden(file), template, fault) :
             /\ tmpPng' = o.png
             /\ tmpPdf' = o.pdf
             /\ made' = made \cup o.made
             /\ res' = [res EXCEPT !["flyer"] = o.ret]
             /\ pc' = IF o.ret = "raise" THEN "error" ELSE "compose"
    /\ UNCHANGED <<base, out, stray, ejemplo, artifact, cwd, file, tipo_envio,
                   out0, base0, runs>>

\* Compose that consumes the label document as generate_sheet consumes
\* tmp/interm.pdf: the label is removed once the try block has been entered.
Compose_removes_label ==
    /\ pc = "compose"
    /\ \E fault \in SheetFaults :
          \E o \in generate_sheet(tipo_envio, file, base[file] # "absent",
                                  out[pdf_out_path(file)], fault) :
             /\ tmpPdf' = o.pdf
             /\ out' = [out EXCEPT ![pdf_out_path(file)] = o.outfile]
             /\ res' = [res EXCEPT !["compose"] = o.ret]
             /\ pc' = IF o.ret = "raise" THEN "error" ELSE "print"
             /\ base' = IF o.pdf = NoFile /\ tmpPdf # NoFile
                        THEN [base EXCEPT ![file] = "absent"]
                        ELSE base
    /\ UNCHANGED <<stray, ejemplo, tmpPng, artifact, cwd, file, tipo_envio,
                   made, out0, base0, runs>>

\* Compose: generate_sheet(tipo_envio, pdf_envio_path, pdf_out_path), result unused
Compose ==
    /\ pc = "compose"
    /\ \E fault \in SheetFaults :
          \E o \in generate_sheet(tipo_envio, file, base[file] # "absent",
                                  out[pdf_out_path(file)], fault) :
             /\ tmpPdf' = o.pdf
             /\ out' = [out EXCEPT ![pdf_out_path(file)] = o.outfile]
             /\ res' = [res EXCEPT !["compose"] = o.ret]
             /\ pc' = IF o.ret = "raise" THEN "error" ELSE "print"
    /\ UNCHANGED <<base, stray, ejemplo, tmpPng, artifact, cwd, file, tipo_envio,
                   made, out0, base0, runs>>

NoDefault == "no system default destination"

\* Print: lpstat -d, then lp unless lpstat answered that there is no default.
\*   lpstat  "printer": exit 0, names a default; "nodefault": exit 0, no
\*           default; "nonzero": exit status # 0; "absent": no such command
\*   lp      "ok"; "nonzero": CalledProcessError; "absent": FileNotFoundError
PrintSheet ==
    /\ pc = "print"
    /\ \E lpstat \in {"printer", "nodefault", "nonzero", "absent"},
          lp \in {"ok", "nonzero", "absent"} :
          LET default_printer ==
                  CASE lpstat = "printer" -> "system default destination: hp"
                    [] lpstat = "nodefault" -> NoDefault
                    [] OTHER -> "None"
              lpRes ==
                  IF default_printer # NoDefault
                  THEN (IF lp = "absent" THEN "raise" ELSE lp)
                  ELSE "-"
          IN  /\ res' = [res EXCEPT !["lpstat"] = lpstat, !["lp"] = lpRes]
              /\ pc' = IF lpRes = "raise" THEN "error" ELSE "archive"
    /\ UNCHANGED <<base, out, stray, ejemplo, tmpPng, tmpPdf, artifact, cwd, file,
                   tipo_envio, made, out0, base0, runs>>

\* The archived original: the label document under its own name.
Label(f) == [kind |-> "label", name |-> f, text |-> base[f]]

\* Archive: shutil.move(pdf_envio_path, OUT_DIR), OUT_DIR being the relative
\* path "out".  In BASE_DIR that is the out directory, and the move raises
\* when it already holds a file of that name; in another working directory
\* "out" is no directory and the document is renamed to it.
Archive ==
    /\ pc = "archive"
    /\ IF cwd = "base"
       THEN IF out[file] # NoFile
            THEN /\ res' = [res EXCEPT !["archive"] = "raise"]
                 /\ pc' = "error"
                 /\ UNCHANGED <<base, out, stray>>
            ELSE /\ res' = [res EXCEPT !["archive"] = "ok"]
                 /\ pc' = "done"
                 /\ out' = [out EXCEPT ![file] = Label(file)]
                 /\ base' = [base EXCEPT ![file] = "absent"]
                 /\ UNCHANGED stray
       ELSE /\ res' = [res EXCEPT !["archive"] = "ok"]
            /\ pc' = "done"
            /\ stray' = Label(file)
            /\ base' = [base EXCEPT ![file] = "absent"]
            /\ UNCHANGED out
    /\ UNCHANGED <<ejemplo, tmpPng, tmpPdf, artifact, cwd, file, tipo_envio,
                   made, out0, base0, runs>>

generar_etiqueta ==
    \/ Discover
    \/ Classify
    \/ GenerateFlyer
    \/ Compose
    \/ PrintSheet
    \/ Archive

Next ==
    \/ PlaceInput
    \/ InstallArtifact
    \/ TrainMain
    \/ FlyerMain
    \/ PrintMain
    \/ generar_etiqueta

Spec == Init /\ [][Next]_vars

-----------------------------------------------------------------------------
(* Properties                                                              *)

RunEnded == pc \in {"done", "error"}

Later == {"flyer", "compose", "lpstat", "lp", "archive"}

\* C1: when a run of generar_etiqueta has ended, returning or raising, no
\* temporary file that the run wrote (tmp/interm.png, tmp/interm.pdf) exists.
C1_TempFilesDeleted ==
    RunEnded =>
        /\ ("png" \in made => ~tmpPng)
        /\ ("pdf" \in made => tmpPdf = NoFile)

\* C2: when generate_sheet failed in the run, by raising or by returning
\* False for an unsupported category, neither lpstat nor lp was run and the
\* input document was not moved.
C2_ComposeFailureAbortsBeforePrint ==
    res["compose"] \in {"False", "raise"} =>
        /\ res["lpstat"] = "-"
        /\ res["lp"] = "-"
        /\ res["archive"] = "-"
        /\ base = base0

\* C3: a run in which generate_sheet wrote the output file never ends with
\* an error raised by the Print step: it reaches the Archive step.
C3_PrintFailureNeverFatal ==
    (pc = "error" /\ res["compose"] = "None") => res["archive"] # "-"

\* C4: when classification fails in a run (no artifact, a document whose
\* text is blank, or predict_pdf raising for any other reason), the run ends
\* with an error, no later step has run, the out directory is as it was
\* when the run started and no temporary file has been written.
C4_ClassifyFailureAborts ==
    ( /\ pc \notin {"idle", "classify"}
      /\ res["discover"] = "ok"
      /\ \/ artifact = NoFile
         \/ base0[file] = "blank"
         \/ res["classify"] = "raise" )
    => /\ pc = "error"
       /\ res["classify"] = "raise"
       /\ \A s \in Later : res[s] = "-"
       /\ out = out0
       /\ base = base0
       /\ made = {}

\* C4 witness: a run on a blank document, with an artifact in place, has
\* ended in the error of the Classify step.
C4_Witness ==
    /\ pc = "error"
    /\ res["classify"] = "raise"
    /\ artifact # NoFile
    /\ base0[file] = "blank"

\* C5: generate_sheet called with a category that is no key of envio_rects,
\* both input documents present, returns False without raising and leaves
\* the out directory, the output path included, exactly as it was.
C5_UnknownCategorySoftFailure ==
    [][ ( /\ pc = "compose"
          /\ tipo_envio \notin DOMAIN envio_rects
          /\ tmpPdf # NoFile
          /\ base[file] # "absent" )
        => /\ res'["compose"] = "False"
           /\ pc' = "print"
           /\ out' = out ]_vars

\* C5 witness: generate_sheet has returned False for the category "Otro"
\* and the output path holds no file.
C5_Witness ==
    /\ res["compose"] = "False"
    /\ tipo_envio = "Otro"
    /\ out[pdf_out_path(file)] = NoFile

FullySuccessful ==
    /\ pc = "done"
    /\ res["classify"] = "ok"
    /\ tipo_envio \in DOMAIN envio_rects
    /\ res["flyer"] = "path"
    /\ res["compose"] = "None"
    /\ res["lp"] # "raise"
    /\ res["archive"] = "ok"

\* C6: after a fully successful run on <medium>-<order>.pdf the composed
\* sheet is at out/<medium><order>.pdf, the input document is no longer in
\* the base directory and is in the out directory, and tmp holds no file.
C6_SuccessfulRunEndState ==
    FullySuccessful =>
        /\ out[pdf_out_path(file)] =
              ComposedSheet(tipo_envio, qr_url(medio_venta(file), num_orden(file)), file)
        /\ base[file] = "absent"
        /\ out[file] = [kind |-> "label", name |-> file, text |-> base0[file]]
        /\ ~tmpPng
        /\ tmpPdf = NoFile

\* C7: when qr_to_pdf failed in the run (it returned None or raised),
\* generate_sheet has not composed and saved an output sheet in that run.
C7_FlyerFailureAbortsCompose ==
    res["flyer"] \in {"None", "raise"} => res["compose"] # "None"

\* <<x0, y0, x1, y1>> lies within the output sheet
WithinSheet(r) ==
    /\ 0 <= r[1] /\ r[1] < r[3] /\ r[3] <= PageWidth
    /\ 0 <= r[2] /\ r[2] < r[4] /\ r[4] <= PageHeight

\* C8: every category of envio_rects has exactly one source rectangle and
\* one destination rectangle, and the promo destination and the category's
\* label destination lie within the sheet, 0 <= x0 < x1 <= 595 and
\* 0 <= y0 < y1 <= 420; so do the destinations of every sheet composed.
C8_DestinationsWithinSheet ==
    /\ \A c \in DOMAIN envio_rects :
          /\ DOMAIN envio_rects[c] = {"rect2", "a5_rect2"}
          /\ WithinSheet(a5_rect1)
          /\ WithinSheet(envio_rects[c].a5_rect2)
    /\ \A n \in OutNames :
          out[n].kind = "sheet" =>
             WithinSheet(out[n].promo.dest) /\ WithinSheet(out[n].label.dest)

SegmentOnCutLine(seg) ==
    /\ seg[1] = 297 /\ seg[3] = 297
    /\ 0 <= seg[2] /\ seg[2] <= seg[4] /\ seg[4] <= PageHeight

SheetShape(sheet) ==
    /\ sheet.pages = 1
    /\ sheet.width = 595
    /\ sheet.height = 420
    /\ sheet.segments = Cardinality(CutGuide)
    /\ \A seg \in CutGuide : SegmentOnCutLine(seg)

\* C9 as stated: every sheet generate_sheet saved has one page of 595 by
\* 420 and a cut guide of floor((419-1)/3) segments, each on x = 297 and
\* within the page height.
C9_SegmentCountFloor ==
    \A n \in OutNames :
        out[n].kind = "sheet" =>
            SheetShape(out[n]) /\ out[n].segments = (419 - 1) \div 3

\* C9 amended: every sheet generate_sheet saved has one page of 595 by 420
\* and a cut guide of ceil((419-1)/3) = 140 segments, one for each y of
\* range(1, 419, 3), each on x = 297 and within the page height.
C9_SegmentCountCeil ==
    \A n \in OutNames :
        out[n].kind = "sheet" =>
            SheetShape(out[n]) /\ out[n].segments = (419 - 1 + 2) \div 3

\* C9 witness: a run has composed and saved its sheet.
C9_Witness ==
    /\ res["compose"] = "None"
    /\ out[pdf_out_path(file)].kind = "sheet"

\* C10: every key of DATA_DIRS is a key of envio_rects, and a run that
\* classified its document with an artifact train.py produced has a
\* category envio_rects knows: generate_sheet does not return False.
C10_LabelSpaceInRegistry ==
    /\ DATA_DIRS \subseteq DOMAIN envio_rects
    /\ ( /\ artifact # NoFile
         /\ artifact.trained
         /\ res["classify"] = "ok" )
       => /\ tipo_envio \in DOMAIN envio_rects
          /\ res["compose"] # "False"

\* C10 witness: a run with an artifact train.py produced has composed its
\* sheet.
C10_Witness ==
    /\ artifact # NoFile
    /\ artifact.trained
    /\ res["classify"] = "ok"
    /\ res["compose"] = "None"

\* C11: the input document is only moved by the Archive step: in a run of
\* generar_etiqueta whose Archive step has not moved it, the base directory
\* is as it was when the run started, and a run that ended with an error
\* raised by Classify, GenerateFlyer, Compose or Print still has its input
\* document, with the same content, in the base directory.
C11_InputOnlyMovedByArchive ==
    /\ (pc # "idle" /\ res["archive"] # "ok") => base = base0
    /\ (pc = "error" /\ res["discover"] = "ok" /\ res["archive"] = "-")
       => /\ base[file] # "absent"
          /\ base[file] = base0[file]
          /\ Matches(file)

\* C11 witness: a run composed its sheet and ended with the error of the
\* Print step, and its input document is still in the base directory.
C11_Witness ==
    /\ pc = "error"
    /\ res["compose"] = "None"
    /\ res["lp"] = "raise"
    /\ base[file] = "text"

====
